---- MODULE Spec2Model ----
(***************************************************************************)
(* GPDMA sharing helper driver (os/hal/ports/STM32/LLD/GPDMAv1/            *)
(* stm32_gpdma.c): the channel allocator (dmaInit, gpdmaChannelAllocI,     *)
(* gpdmaChannelFreeI) and the interrupt dispatcher (gpdmaServeInterrupt).  *)
(*                                                                         *)
(* The build modelled has debug checks and assertions enabled, so          *)
(* osalDbgCheck / osalDbgAssert halt the system when their condition is    *)
(* false.  Masks are uint32_t values kept as naturals.                         *)
(***************************************************************************)
EXTENDS Integers, Sequences, FiniteSets, TLC

(***************************************************************************)
(* Sizes.  The real part has two controllers of eight channels each; the   *)
(* model keeps the layout of the descriptor table (all GPDMA1 channels,    *)
(* then all GPDMA2 channels) with fewer channels per controller.           *)
(***************************************************************************)
STM32_GPDMA1_NUM_CHANNELS == 2

STM32_GPDMA2_NUM_CHANNELS == 1

STM32_GPDMA_CHANNELS == STM32_GPDMA1_NUM_CHANNELS + STM32_GPDMA2_NUM_CHANNELS

\* Number of distinct IRQ priorities a caller may ask for.
MaxPrio == 1

(***************************************************************************)
(* uint32_t bit operations.                                                *)
(***************************************************************************)
RECURSIVE BitAnd(_, _)
BitAnd(a, b) ==
    IF a = 0 \/ b = 0 THEN 0
    ELSE (a % 2) * (b % 2) + 2 * BitAnd(a \div 2, b \div 2)

\* a | b
BitOr(a, b) == a + b - BitAnd(a, b)

\* a & ~b
BitClear(a, b) == a - BitAnd(a, b)

\* (uint32_t)(1U << i); i is at most STM32_GPDMA_CHANNELS, below the 32 bits
\* of the type, so that no bit is shifted out.
Shl1(i) == 2 ^ i

(***************************************************************************)
(* Values.                                                                 *)
(***************************************************************************)
NULL == "NULL"

\* Handling functions and their parameters, as passed by the drivers.
Funcs == {"F1"}

Params == {"P1"}

IrqPrios == 1..MaxPrio

\* A descriptor pointer is kept as its offset from __stm32_gpdma_channels;
\* the null pointer is NULLCH.
NULLCH == -1

Channels == 0..(STM32_GPDMA_CHANNELS - 1)

\* Channel masks of the two controllers: the table holds the GPDMA1
\* channels at offsets 0..NUM1-1 and the GPDMA2 channels after them.
STM32_GPDMA1_MASK_ANY == (2 ^ STM32_GPDMA1_NUM_CHANNELS) - 1

STM32_GPDMA2_MASK_ANY ==
    ((2 ^ STM32_GPDMA2_NUM_CHANNELS) - 1) * (2 ^ STM32_GPDMA1_NUM_CHANNELS)

\* The bits kept of a channel's CCR (interrupt enables), CSR (pending flags)
\* and CFCR (flag clears): two interrupt sources, at the same bit positions
\* in the three registers.
IrqFlags == {1, 2}

RegValues == 0..3

VARIABLES
    allocated_mask,   \* gpdma.allocated_mask
    channels,         \* gpdma.channels[i].func / .param
    overrun,          \* the memory that follows gpdma.channels in RAM
    rcc,              \* clock enable of GPDMA1 and GPDMA2
    nvic,             \* per channel vector: enabled, priority
    CCR,              \* per channel control register (interrupt enables)
    CSR,              \* per channel status register (pending flags)
    halted,           \* the system was halted by a failed check/assertion
    last,             \* the last operation performed, its inputs and result
    lock,             \* the caller inside osalSysLock .. osalSysUnlock
    task,             \* per caller: its position and the channel it holds
    isr               \* gpdmaServeInterrupt run statement by statement:
                      \* its position, its locals and the calls it made

vars == <<allocated_mask, channels, overrun, rcc, nvic, CCR, CSR, halted, last,
          lock, task, isr>>

\* The callers of the locked variants.
Tasks == {"T1", "T2"}

NoTask == "none"

taskVars == <<lock, task>>

\* No gpdmaServeInterrupt in progress, none completed yet.
IsrIdle == [pc |-> "idle", dmachp |-> NULLCH, csr |-> 0, cfcr |-> 0,
            func |-> NULL, param |-> NULL, calls |-> <<>>,
            owned |-> FALSE, disturbed |-> FALSE]

EmptySlot == [func |-> NULL, param |-> NULL]

VectorOff == [enabled |-> FALSE, prio |-> 0]

(***************************************************************************)
(* dmaInit: the state after initialization.  The clocks and vectors are    *)
(* in their reset state (disabled); dmaInit does not touch them.           *)
(***************************************************************************)
Init ==
    /\ allocated_mask = 0
    /\ channels = [i \in Channels |-> EmptySlot]
    /\ overrun = EmptySlot
    /\ rcc = [d \in {1, 2} |-> FALSE]
    /\ nvic = [i \in Channels |-> VectorOff]
    /\ CCR = [i \in Channels |-> 0]
    /\ CSR = [i \in Channels |-> 0]
    /\ halted = FALSE
    /\ last = [op |-> "init"]
    /\ lock = NoTask
    /\ task = [t \in Tasks |-> [pc |-> "idle", dmachp |-> NULLCH]]
    /\ isr = IsrIdle

(***************************************************************************)
(* The descriptor table __stm32_gpdma_channels: entry i binds channel i's  *)
(* register block and its vector.  STM32_GPDMA_CHANNEL(i) with             *)
(* i = STM32_GPDMA_CHANNELS points past the table: what is read there is   *)
(* whatever follows it in flash, any register block and any vector (the    *)
(* value STM32_GPDMA_CHANNELS stands for one that is not a GPDMA           *)
(* channel's).                                                             *)
(***************************************************************************)
Descriptors(i) ==
    IF i \in Channels
    THEN {[channel |-> i, vector |-> i]}
    ELSE [channel : 0..STM32_GPDMA_CHANNELS, vector : 0..STM32_GPDMA_CHANNELS]

NoIndex == -1

\* The indices the search loop of gpdmaChannelAllocI visits.
SearchLimit == STM32_GPDMA_CHANNELS

\* Mask of the available channels within the specified channels.
Available(mask, cmask) == BitAnd(mask, cmask)

\* The test "channel found" of the search loop.
ChannelFound(available, i) == BitAnd(available, Shl1(i)) = 0

\* The search loop, from index i on: the first index found, or NoIndex.
RECURSIVE Search(_, _)
Search(available, i) ==
    IF i > SearchLimit THEN NoIndex
    ELSE IF ChannelFound(available, i) THEN i
    ELSE Search(available, i + 1)

\* InstallHandler writing every slot.
InstallHandlerEverywhere(chs, i, func, param) ==
    [j \in Channels |-> [func |-> func, param |-> param]]

\* Installs the DMA handler.
InstallHandler(chs, i, func, param) ==
    [chs EXCEPT ![i] = [func |-> func, param |-> param]]

\* Enabling DMA clocks required by the current channels set.
ClocksAfterAlloc(clk, mask) ==
    [d \in {1, 2} |->
        IF d = 1 /\ BitAnd(STM32_GPDMA1_MASK_ANY, mask) # 0 THEN TRUE
        ELSE IF d = 2 /\ BitAnd(STM32_GPDMA2_MASK_ANY, mask) # 0 THEN TRUE
        ELSE clk[d]]

\* nvicEnableVector, only if a callback is defined.
VectorAfterAlloc(nv, vector, irqprio, func) ==
    IF func # NULL /\ vector \in Channels
    THEN [nv EXCEPT ![vector] = [enabled |-> TRUE, prio |-> irqprio]]
    ELSE nv

\* gpdmaStreamDisable: the channel is stopped and its pending flags cleared.
gpdmaStreamDisable(csr, channel) ==
    IF channel \in Channels THEN [csr EXCEPT ![channel] = 0] ELSE csr

\* ResetCCR leaving the register as it is.
ResetCCRNothing(ccr, channel) == ccr

\* dmachp->channel->CCR = 0U
ResetCCR(ccr, channel) ==
    IF channel \in Channels THEN [ccr EXCEPT ![channel] = 0] ELSE ccr

gpdmaChannelAllocI(cmask, irqprio, func, param) ==
    /\ ~halted
    /\ LET available == Available(allocated_mask, cmask)
           i == Search(available, 0)
       IN IF i = NoIndex
          THEN /\ UNCHANGED <<allocated_mask, channels, overrun, rcc, nvic,
                              CCR, CSR, halted>>
               /\ last' = [op |-> "alloc", cmask |-> cmask,
                           pre |-> allocated_mask, index |-> NoIndex,
                           ret |-> NULLCH, stale |-> FALSE]
          ELSE \E dmachp \in Descriptors(i) :
               /\ channels' = IF i \in Channels
                              THEN InstallHandler(channels, i, func, param)
                              ELSE channels
               /\ overrun' = IF i \in Channels
                             THEN overrun
                             ELSE [func |-> func, param |-> param]
               /\ allocated_mask' = BitOr(allocated_mask, Shl1(i))
               /\ rcc' = ClocksAfterAlloc(rcc, Shl1(i))
               /\ nvic' = VectorAfterAlloc(nvic, dmachp.vector, irqprio, func)
               /\ CSR' = gpdmaStreamDisable(CSR, dmachp.channel)
               /\ CCR' = ResetCCR(CCR, dmachp.channel)
               /\ UNCHANGED halted
               /\ last' = [op |-> "alloc", cmask |-> cmask,
                           pre |-> allocated_mask, index |-> i, ret |-> i,
                           stale |-> /\ i \in Channels
                                     /\ (CCR[i] # 0 \/ CSR[i] # 0)]

(***************************************************************************)
(* gpdmaChannelFreeI.                                                      *)
(***************************************************************************)
\* FreeChecks without the assertion "not allocated".
FreeChecksNullOnly(mask, dmachp) == dmachp # NULLCH

\* osalDbgCheck(dmachp != NULL) and the assertion "not allocated".
FreeChecks(mask, dmachp) ==
    /\ dmachp # NULLCH
    /\ BitAnd(mask, Shl1(dmachp)) # 0

\* Marks the channel as not allocated.
MarkFree(mask, selfindex) == BitClear(mask, Shl1(selfindex))

\* VectorAfterFree leaving the vector enabled.
VectorAfterFreeNothing(nv, vector) == nv

\* nvicDisableVector(dmachp->vector)
VectorAfterFree(nv, vector) ==
    IF vector \in Channels THEN [nv EXCEPT ![vector] = VectorOff] ELSE nv

\* RemoveHandler leaving func in place.
RemoveHandlerKeepsFunc(chs, selfindex) ==
    [chs EXCEPT ![selfindex] = [func |-> chs[selfindex].func, param |-> NULL]]

\* Removes the DMA handler.
RemoveHandler(chs, selfindex) == [chs EXCEPT ![selfindex] = EmptySlot]

\* ClocksAfterFree without the GPDMA2 part.
ClocksAfterFreeFirstOnly(clk, mask) ==
    [d \in {1, 2} |->
        IF d = 1 /\ BitAnd(mask, STM32_GPDMA1_MASK_ANY) = 0 THEN FALSE
        ELSE clk[d]]

\* Shutting down clocks that are no more required, if any.
ClocksAfterFree(clk, mask) ==
    [d \in {1, 2} |->
        IF d = 1 /\ BitAnd(mask, STM32_GPDMA1_MASK_ANY) = 0 THEN FALSE
        ELSE IF d = 2 /\ BitAnd(mask, STM32_GPDMA2_MASK_ANY) = 0 THEN FALSE
        ELSE clk[d]]

\* The round trip a release completes: the mask before the claim, when the
\* operation before this release was the claim that returned dmachp.
ClaimedJustBefore(dmachp) ==
    IF last.op = "alloc" /\ last.ret = dmachp /\ dmachp # NULLCH
    THEN last.pre
    ELSE -1

gpdmaChannelFreeI(dmachp) ==
    /\ ~halted
    /\ last' = [op |-> "free", dmachp |-> dmachp, pre |-> allocated_mask,
                claim_pre |-> ClaimedJustBefore(dmachp)]
    /\ IF ~FreeChecks(allocated_mask, dmachp)
       THEN /\ halted' = TRUE
            /\ UNCHANGED <<allocated_mask, channels, overrun, rcc, nvic,
                           CCR, CSR>>
       ELSE \E dsc \in Descriptors(dmachp) :
            LET selfindex == dmachp
            IN /\ allocated_mask' = MarkFree(allocated_mask, selfindex)
               /\ nvic' = VectorAfterFree(nvic, dsc.vector)
               /\ channels' = IF selfindex \in Channels
                              THEN RemoveHandler(channels, selfindex)
                              ELSE channels
               /\ overrun' = IF selfindex \in Channels
                             THEN overrun
                             ELSE EmptySlot
               /\ rcc' = ClocksAfterFree(rcc, allocated_mask')
               /\ UNCHANGED <<CCR, CSR, halted>>

(***************************************************************************)
(* The allocator on its own: claims with every non-empty mask over the     *)
(* bits the search looks at, and releases of every pointer a caller may    *)
(* hold.                                                                   *)
(***************************************************************************)
CMasks == 1..((2 ^ (STM32_GPDMA_CHANNELS + 1)) - 1)

\* The handlers drivers register: none, or a function with its parameter.
Handlers == {EmptySlot} \cup [func : Funcs, param : Params]

Pointers == {NULLCH} \cup (0..STM32_GPDMA_CHANNELS)

Next ==
    /\ \/ \E cmask \in CMasks, irqprio \in IrqPrios, h \in Handlers :
             gpdmaChannelAllocI(cmask, irqprio, h.func, h.param)
       \/ \E dmachp \in Pointers : gpdmaChannelFreeI(dmachp)
    /\ UNCHANGED <<taskVars, isr>>

Spec == Init /\ [][Next]_vars

(***************************************************************************)
(* gpdmaServeInterrupt.  The IRQ handlers pass the descriptor of their own *)
(* channel, an entry of the table.                                         *)
(***************************************************************************)
\* Writing csr to CFCR clears the flags written as one.
ClearFlags(status, csr) == BitClear(status, csr)

\* Dispatch without the test of the status against CCR.
DispatchUnfiltered(csr, ccr, slot) ==
    IF csr # 0 /\ slot.func # NULL
    THEN <<[func |-> slot.func, param |-> slot.param, flags |-> csr]>>
    ELSE <<>>

\* The calls made for a status csr, the enabled sources ccr and the
\* redirector slot of the channel: a sequence of (func, param, flags).
Dispatch(csr, ccr, slot) ==
    IF BitAnd(csr, ccr) # 0
    THEN IF slot.func # NULL
         THEN <<[func |-> slot.func, param |-> slot.param, flags |-> csr]>>
         ELSE <<>>
    ELSE <<>>

gpdmaServeInterrupt(dmachp) ==
    /\ ~halted
    /\ LET selfindex == dmachp
           csr == CSR[dmachp]
       IN /\ CSR' = [CSR EXCEPT ![dmachp] = ClearFlags(CSR[dmachp], csr)]
          /\ last' = [op |-> "isr", dmachp |-> dmachp, csr |-> csr,
                      ccr |-> CCR[dmachp], slot |-> channels[selfindex],
                      calls |-> Dispatch(csr, CCR[dmachp],
                                         channels[selfindex])]
    /\ UNCHANGED <<allocated_mask, channels, overrun, rcc, nvic, CCR, halted>>

(***************************************************************************)
(* What happens to the registers outside this file: the owner of a channel *)
(* programs its CCR through the stream API, and the hardware raises        *)
(* pending flags, which stay set until cleared through CFCR.               *)
(***************************************************************************)
StreamSetup(channel, ccr) ==
    /\ ~halted
    /\ BitAnd(allocated_mask, Shl1(channel)) # 0
    /\ CCR' = [CCR EXCEPT ![channel] = ccr]
    /\ last' = [op |-> "setup", channel |-> channel]
    /\ UNCHANGED <<allocated_mask, channels, overrun, rcc, nvic, CSR, halted>>

HwRaise(channel, flag) ==
    /\ ~halted
    /\ CSR' = [CSR EXCEPT ![channel] = BitOr(CSR[channel], flag)]
    /\ last' = [op |-> "raise", channel |-> channel]
    /\ UNCHANGED <<allocated_mask, channels, overrun, rcc, nvic, CCR, halted>>

(***************************************************************************)
(* The allocator with the dispatcher and the hardware: drivers claim with  *)
(* the mask of all channels, and the channels of IsrChannels are the ones  *)
(* programmed, raising flags and served.                                   *)
(***************************************************************************)
IsrChannels == {0}

IsrCMasks == {(2 ^ STM32_GPDMA_CHANNELS) - 1}

NextIsr ==
    /\ \/ \E cmask \in IsrCMasks, irqprio \in IrqPrios, h \in Handlers :
             gpdmaChannelAllocI(cmask, irqprio, h.func, h.param)
       \/ \E dmachp \in Pointers : gpdmaChannelFreeI(dmachp)
       \/ \E dmachp \in IsrChannels : gpdmaServeInterrupt(dmachp)
       \/ \E channel \in IsrChannels, ccr \in RegValues :
             StreamSetup(channel, ccr)
       \/ \E channel \in IsrChannels, flag \in IrqFlags :
             HwRaise(channel, flag)
    /\ UNCHANGED <<taskVars, isr>>

SpecIsr == Init /\ [][NextIsr]_vars

(***************************************************************************)
(* dmaInit called in any state: it resets allocated_mask, and for every    *)
(* channel the CCR and the func of the slot.  It leaves alone the param    *)
(* of the slots, the clocks and the vectors.                               *)
(***************************************************************************)
\* InitHandlers clearing the first slot only.
InitHandlersFirstOnly(chs) ==
    [i \in Channels |->
        IF i = 0 THEN [func |-> NULL, param |-> chs[i].param] ELSE chs[i]]

\* gpdma.channels[i].func = NULL, for every i
InitHandlers(chs) ==
    [i \in Channels |-> [func |-> NULL, param |-> chs[i].param]]

\* __stm32_gpdma_channels[i].channel->CCR = 0U, for every i
InitCCR(ccr) == [i \in Channels |-> 0]

dmaInit ==
    /\ ~halted
    /\ allocated_mask' = 0
    /\ CCR' = InitCCR(CCR)
    /\ channels' = InitHandlers(channels)
    /\ last' = [op |-> "dmaInit", pre |-> allocated_mask,
                dirty |-> \E i \in Channels :
                             CCR[i] # 0 /\ channels[i].func # NULL]
    /\ UNCHANGED <<overrun, rcc, nvic, CSR, halted>>

NextInit ==
    /\ \/ \E cmask \in IsrCMasks, irqprio \in IrqPrios, h \in Handlers :
             gpdmaChannelAllocI(cmask, irqprio, h.func, h.param)
       \/ \E dmachp \in Pointers : gpdmaChannelFreeI(dmachp)
       \/ \E channel \in IsrChannels, ccr \in RegValues :
             StreamSetup(channel, ccr)
       \/ dmaInit
    /\ UNCHANGED <<taskVars, isr>>

SpecInit == Init /\ [][NextInit]_vars

(***************************************************************************)
(* The locked variants gpdmaChannelAlloc and gpdmaChannelFree, called by   *)
(* the callers of Tasks.  osalSysLock enters the kernel critical section   *)
(* (on this single core: nothing else runs until osalSysUnlock), the       *)
(* I-class function runs inside it, osalSysUnlock leaves it.  A caller     *)
(* claims when it holds no channel and releases the channel it holds.      *)
(***************************************************************************)
\* osalSysLock()
osalSysLock(t) ==
    /\ lock = NoTask
    /\ lock' = t

\* osalSysUnlock()
osalSysUnlock(t) ==
    /\ lock = t
    /\ lock' = NoTask

\* gpdmaChannelAlloc, up to the call of gpdmaChannelAllocI.
AllocLock(t) ==
    /\ ~halted
    /\ task[t].pc = "idle" /\ task[t].dmachp = NULLCH
    /\ osalSysLock(t)
    /\ task' = [task EXCEPT ![t].pc = "alloc"]
    /\ last' = [op |-> "lock", task |-> t]
    /\ UNCHANGED <<allocated_mask, channels, overrun, rcc, nvic, CCR, CSR,
                   halted>>

\* dmachp = gpdmaChannelAllocI(cmask, irqprio, func, param)
AllocBody(t, cmask, irqprio, func, param) ==
    /\ task[t].pc = "alloc"
    /\ gpdmaChannelAllocI(cmask, irqprio, func, param)
    /\ task' = [task EXCEPT ![t] = [pc |-> "alloc_unlock",
                                    dmachp |-> last'.ret]]
    /\ UNCHANGED lock

\* osalSysUnlock(); return dmachp
AllocUnlock(t) ==
    /\ ~halted
    /\ task[t].pc = "alloc_unlock"
    /\ osalSysUnlock(t)
    /\ task' = [task EXCEPT ![t].pc = "idle"]
    /\ last' = [op |-> "unlock", task |-> t]
    /\ UNCHANGED <<allocated_mask, channels, overrun, rcc, nvic, CCR, CSR,
                   halted>>

\* gpdmaStreamFreeI, the function gpdmaChannelFree calls: the release of a
\* channel with the lock held, that is gpdmaChannelFreeI.
gpdmaStreamFreeI(dmachp) == gpdmaChannelFreeI(dmachp)

\* gpdmaChannelFree, up to the call of gpdmaStreamFreeI.
FreeLock(t) ==
    /\ ~halted
    /\ task[t].pc = "idle" /\ task[t].dmachp # NULLCH
    /\ osalSysLock(t)
    /\ task' = [task EXCEPT ![t].pc = "free"]
    /\ last' = [op |-> "lock", task |-> t]
    /\ UNCHANGED <<allocated_mask, channels, overrun, rcc, nvic, CCR, CSR,
                   halted>>

\* gpdmaStreamFreeI(dmachp)
FreeBody(t) ==
    /\ task[t].pc = "free"
    /\ gpdmaStreamFreeI(task[t].dmachp)
    /\ task' = [task EXCEPT ![t] = [pc |-> "free_unlock", dmachp |-> NULLCH]]
    /\ UNCHANGED lock

\* osalSysUnlock()
FreeUnlock(t) ==
    /\ ~halted
    /\ task[t].pc = "free_unlock"
    /\ osalSysUnlock(t)
    /\ task' = [task EXCEPT ![t].pc = "idle"]
    /\ last' = [op |-> "unlock", task |-> t]
    /\ UNCHANGED <<allocated_mask, channels, overrun, rcc, nvic, CCR, CSR,
                   halted>>

\* The callers claim within one controller, the other, or either.
TaskCMasks == {STM32_GPDMA1_MASK_ANY, STM32_GPDMA2_MASK_ANY,
               BitOr(STM32_GPDMA1_MASK_ANY, STM32_GPDMA2_MASK_ANY)}

NextTasks ==
    /\ \/ \E t \in Tasks : AllocLock(t)
       \/ \E t \in Tasks, cmask \in TaskCMasks, irqprio \in IrqPrios,
             h \in Handlers : AllocBody(t, cmask, irqprio, h.func, h.param)
       \/ \E t \in Tasks : AllocUnlock(t)
       \/ \E t \in Tasks : FreeLock(t)
       \/ \E t \in Tasks : FreeBody(t)
       \/ \E t \in Tasks : FreeUnlock(t)
    /\ UNCHANGED isr

SpecTasks == Init /\ [][NextTasks]_vars

(***************************************************************************)
(* gpdmaServeInterrupt statement by statement.  It runs outside the        *)
(* critical section, so an interrupt of higher priority can run a claim or *)
(* a release (I-class, atomic under its own lock) between two of its       *)
(* statements.  gpdma is not volatile: for the call of line 329 the build  *)
(* may read func and param again or use what it read for the test of line  *)
(* 328, so the model chooses either.  isr.owned and isr.disturbed observe  *)
(* the run: the channel was claimed at entry, a claim or release of the    *)
(* channel ran during it.                                                  *)
(***************************************************************************)
\* AckValue writing the first flag only.
AckFirstFlag(csr) == BitAnd(csr, 1)

\* dmachp->channel->CFCR = csr
AckValue(csr) == csr

\* csr & dmachp->channel->CCR
SourceEnabled(csr, ccr) == BitAnd(csr, ccr) # 0

\* FuncRegistered whatever the slot holds.
FuncRegisteredAlways(func) == TRUE

\* if (gpdma.channels[selfindex].func)
FuncRegistered(func) == func # NULL

\* The run is over: its locals are gone, what stays is what it called and
\* the observations of the run.
IsrReturn(calls) ==
    [IsrIdle EXCEPT !.dmachp = isr.dmachp, !.calls = calls,
                    !.owned = isr.owned, !.disturbed = isr.disturbed]

\* csr = dmachp->channel->CSR; dmachp->channel->CFCR = csr;
IsrEntry(dmachp) ==
    /\ ~halted
    /\ isr.pc = "idle"
    /\ LET csr == CSR[dmachp]
       IN /\ CSR' = [CSR EXCEPT ![dmachp] = ClearFlags(CSR[dmachp],
                                                       AckValue(csr))]
          /\ isr' = [pc |-> "acked", dmachp |-> dmachp, csr |-> csr,
                     cfcr |-> AckValue(csr), func |-> NULL, param |-> NULL,
                     calls |-> <<>>,
                     owned |-> BitAnd(allocated_mask, Shl1(dmachp)) # 0,
                     disturbed |-> FALSE]
    /\ last' = [op |-> "isr_entry", dmachp |-> dmachp]
    /\ UNCHANGED <<allocated_mask, channels, overrun, rcc, nvic, CCR, halted,
                   taskVars>>

\* if (csr & dmachp->channel->CCR)
IsrTestCCR ==
    /\ ~halted
    /\ isr.pc = "acked"
    /\ isr' = IF SourceEnabled(isr.csr, CCR[isr.dmachp])
              THEN [isr EXCEPT !.pc = "enabled"]
              ELSE IsrReturn(<<>>)
    /\ last' = [op |-> "isr_ccr", dmachp |-> isr.dmachp]
    /\ UNCHANGED <<allocated_mask, channels, overrun, rcc, nvic, CCR, CSR,
                   halted, taskVars>>

\* if (gpdma.channels[selfindex].func)
IsrTestFunc ==
    /\ ~halted
    /\ isr.pc = "enabled"
    /\ LET selfindex == isr.dmachp
       IN isr' = IF FuncRegistered(channels[selfindex].func)
                 THEN [isr EXCEPT !.pc = "call",
                                  !.func = channels[selfindex].func,
                                  !.param = channels[selfindex].param]
                 ELSE IsrReturn(<<>>)
    /\ last' = [op |-> "isr_func", dmachp |-> isr.dmachp]
    /\ UNCHANGED <<allocated_mask, channels, overrun, rcc, nvic, CCR, CSR,
                   halted, taskVars>>

\* gpdma.channels[selfindex].func(gpdma.channels[selfindex].param, csr)
IsrCall ==
    /\ ~halted
    /\ isr.pc = "call"
    /\ LET selfindex == isr.dmachp
       IN \E func \in {isr.func, channels[selfindex].func},
             param \in {isr.param, channels[selfindex].param} :
            isr' = IsrReturn(<<[func |-> func, param |-> param,
                                flags |-> isr.csr]>>)
    /\ last' = [op |-> "isr_call", dmachp |-> isr.dmachp]
    /\ UNCHANGED <<allocated_mask, channels, overrun, rcc, nvic, CCR, CSR,
                   halted, taskVars>>

\* A claim or a release of channel ran: the run in progress on that
\* channel, if any, was interleaved with it.
Disturb(channel) ==
    IF isr.pc # "idle" /\ isr.dmachp = channel
    THEN [isr EXCEPT !.disturbed = TRUE]
    ELSE isr

\* Two drivers, each registering its own callback with its own context.
RaceHandlers == Handlers \cup {[func |-> "F2", param |-> "P2"]}

\* The drivers ask for the channels that are served.
RaceCMasks == {Shl1(channel) : channel \in IsrChannels}

NextRace ==
    \/ /\ \E cmask \in RaceCMasks, irqprio \in IrqPrios, h \in RaceHandlers :
             gpdmaChannelAllocI(cmask, irqprio, h.func, h.param)
       /\ isr' = Disturb(last'.ret)
       /\ UNCHANGED taskVars
    \/ /\ \E dmachp \in IsrChannels :
             /\ gpdmaChannelFreeI(dmachp)
             /\ isr' = Disturb(dmachp)
       /\ UNCHANGED taskVars
    \/ \E dmachp \in IsrChannels : IsrEntry(dmachp)
    \/ IsrTestCCR
    \/ IsrTestFunc
    \/ IsrCall
    \/ /\ \E channel \in IsrChannels, ccr \in RegValues :
             StreamSetup(channel, ccr)
       /\ UNCHANGED <<taskVars, isr>>
    \/ /\ \E channel \in IsrChannels, flag \in IrqFlags :
             HwRaise(channel, flag)
       /\ UNCHANGED <<taskVars, isr>>

SpecRace == Init /\ [][NextRace]_vars

(***************************************************************************)
(* Properties.                                                             *)
(***************************************************************************)
\* Bit i of the mask m.
HasBit(m, i) == (m \div (2 ^ i)) % 2 = 1

\* A candidate set that names channels of the table, and at least one.
SensibleMask(cmask) == cmask \in 1..((2 ^ STM32_GPDMA_CHANNELS) - 1)

\* The last operation was a claim, with a sensible candidate set.
Claimed == last.op = "alloc" /\ SensibleMask(last.cmask)

\* The last operation was such a claim and it returned a channel.
Returned == Claimed /\ last.ret # NULLCH

\* The channels of the candidate set cmask that are not owned in mask.
FreeCandidates(cmask, mask) ==
    {i \in Channels : HasBit(cmask, i) /\ ~HasBit(mask, i)}

\* C1. Mask confinement: a claim returns NULL or a channel whose bit is set
\* in the candidate set it was called with.
MaskConfinement == Returned => HasBit(last.cmask, last.ret)

\* C2. Exclusivity: a claim never returns a channel whose ownership bit was
\* already set when the claim was called.
Exclusivity == Returned => ~HasBit(last.pre, last.ret)

\* C3. Lowest-index policy: when some channel of the candidate set is not
\* owned, the claim returns the one of them with the smallest index.
LowestIndex ==
    (Claimed /\ FreeCandidates(last.cmask, last.pre) # {}) =>
        /\ last.ret \in FreeCandidates(last.cmask, last.pre)
        /\ \A j \in FreeCandidates(last.cmask, last.pre) : last.ret <= j

\* C4. Exhaustion: a claim returns NULL if and only if every channel of the
\* candidate set is owned.
Exhaustion ==
    Claimed =>
        (last.ret = NULLCH <=> FreeCandidates(last.cmask, last.pre) = {})

\* C5. No out-of-range index: the index a claim uses to select a descriptor,
\* write a redirector slot and set an ownership bit is below
\* STM32_GPDMA_CHANNELS.
IndexInRange ==
    (Claimed /\ last.index # NoIndex) => last.index \in Channels

\* C6. Clock gating: the clock of a controller is enabled if and only if one
\* of its channels has its ownership bit set.
ClockGating ==
    /\ rcc[1] <=> (\E i \in Channels :
                      HasBit(STM32_GPDMA1_MASK_ANY, i) /\ HasBit(allocated_mask, i))
    /\ rcc[2] <=> (\E i \in Channels :
                      HasBit(STM32_GPDMA2_MASK_ANY, i) /\ HasBit(allocated_mask, i))

\* A release of the last owned GPDMA1 channel, with GPDMA2 still in use.
ClockGatingWitness ==
    /\ last.op = "free" /\ ~halted
    /\ HasBit(STM32_GPDMA1_MASK_ANY, last.dmachp)
    /\ ~rcc[1] /\ rcc[2]

\* C7. Callback slot: the func of a channel's slot is not NULL only if the
\* channel's ownership bit is set.
CallbackSlotOwned ==
    \A i \in Channels : channels[i].func # NULL => HasBit(allocated_mask, i)

\* A release of a channel while another one is owned with a callback.
CallbackSlotWitness ==
    /\ last.op = "free" /\ ~halted /\ last.dmachp \in Channels
    /\ channels[last.dmachp].func = NULL
    /\ \E i \in Channels : HasBit(allocated_mask, i) /\ channels[i].func # NULL

\* C8. Dispatch filtering: gpdmaServeInterrupt calls the channel's func if
\* and only if the status read and the CCR share a set bit and a func is
\* registered; it then calls it once, with the registered param and the
\* status as read.
DispatchFiltering ==
    last.op = "isr" =>
        /\ (last.calls # <<>>) <=>
              ((\E b \in 0..1 : HasBit(last.csr, b) /\ HasBit(last.ccr, b))
               /\ last.slot.func # NULL)
        /\ last.calls # <<>> =>
              /\ Len(last.calls) = 1
              /\ last.calls[1] = [func |-> last.slot.func,
                                  param |-> last.slot.param,
                                  flags |-> last.csr]

\* An interrupt with a func registered and a pending flag that is not an
\* enabled source: nothing is called.
DispatchFilteredWitness ==
    /\ last.op = "isr"
    /\ last.slot.func # NULL /\ last.csr # 0 /\ last.ccr # 0
    /\ last.calls = <<>>

\* C9. Round trip: a claim that returns a channel, followed at once by the
\* release of that channel, leaves allocated_mask as it was before the claim.
RoundTrip ==
    (last.op = "free" /\ ~halted /\ last.claim_pre # -1) =>
        allocated_mask = last.claim_pre

\* C10. Invalid release: a release of the null pointer, or of a channel whose
\* ownership bit is clear, halts the system and changes nothing.
InvalidReleaseTrapped ==
    [][(last'.op = "free"
        /\ (last'.dmachp = NULLCH \/ ~HasBit(allocated_mask, last'.dmachp)))
       => (halted' /\ UNCHANGED <<allocated_mask, channels, overrun, rcc,
                                  nvic, CCR, CSR>>)]_vars

\* A release of a channel that is not owned, trapped.
InvalidReleaseWitness ==
    /\ halted /\ last.op = "free"
    /\ last.dmachp \in Channels /\ ~HasBit(allocated_mask, last.dmachp)

\* C11. Init postcondition: after dmaInit, whatever the state before,
\* allocated_mask is zero, the func of every slot is NULL and every
\* channel's CCR is zero.
InitPostcondition ==
    last.op \in {"init", "dmaInit"} =>
        /\ allocated_mask = 0
        /\ \A i \in Channels : channels[i].func = NULL /\ CCR[i] = 0

\* dmaInit called with channels owned, a callback registered and its
\* channel's CCR programmed.
InitWitness == last.op = "dmaInit" /\ last.pre # 0 /\ last.dirty

\* C12. Interrupt-vector gating: the vector of a channel is enabled only
\* while the channel is owned with a callback registered.
VectorGating ==
    \A i \in Channels :
        nvic[i].enabled => (HasBit(allocated_mask, i) /\ channels[i].func # NULL)

\* C13. No state leak between owners: when a claim returns a channel, the
\* channel's CCR is zero and none of its pending flags is set.
QuiescentOnClaim ==
    (last.op = "alloc" /\ last.ret \in Channels) =>
        (CCR[last.ret] = 0 /\ CSR[last.ret] = 0)

\* A claim that returns a channel whose registers the previous owner, or the
\* hardware, had left non-zero.
QuiescentWitness ==
    last.op = "alloc" /\ last.ret \in Channels /\ last.stale

\* C14. Domain scenario, with the GPDMA1 channels as domain A and the GPDMA2
\* channels as domain B: a claim restricted to B with nothing owned returns
\* the first channel of B, enables B's clock and leaves A's clock disabled;
\* with only the first channel of B owned it returns the second one; with
\* only the second channel of B owned it returns the first one.
FirstOfB == STM32_GPDMA1_NUM_CHANNELS

DomainScenario ==
    (last.op = "alloc" /\ last.cmask = STM32_GPDMA2_MASK_ANY) =>
        /\ last.pre = 0 => (last.ret = FirstOfB /\ rcc[2] /\ ~rcc[1])
        /\ (last.pre = 2 ^ FirstOfB /\ FirstOfB + 1 \in Channels) =>
              last.ret = FirstOfB + 1
        /\ (last.pre = 2 ^ (FirstOfB + 1) /\ FirstOfB + 1 \in Channels) =>
              last.ret = FirstOfB

\* C15. Atomic mutation under concurrency: callers of the locked variants
\* never hold the same channel at the same time.
NoSharedChannel ==
    \A t1, t2 \in Tasks :
        (t1 # t2 /\ task[t1].dmachp # NULLCH) =>
            task[t1].dmachp # task[t2].dmachp

\* C16. Locked release equivalence: gpdmaChannelFree on an owned channel,
\* run inside the critical section, leaves the state the I-class release
\* leaves: the channel's bit clear and no other bit changed, its vector
\* disabled, its slot empty, and each controller's clock gated off exactly
\* when none of its channels is left claimed.
LockedReleaseStep(t) ==
    /\ task[t].pc = "free" /\ task'[t].pc = "free_unlock"
    /\ task[t].dmachp \in Channels
    /\ HasBit(allocated_mask, task[t].dmachp)

ProperCall(call) ==
    /\ call.func # NULL
    /\ [func |-> call.func, param |-> call.param] \in RaceHandlers

\* C17 as stated. Stale interrupts are dropped under any interleaving of
\* gpdmaServeInterrupt with claims and releases of its channel: a run on a
\* channel that was not owned calls nothing, and no run calls an empty
\* callback or a callback with the context of another registration.
StaleDroppedAnyInterleaving ==
    isr.pc = "idle" =>
        /\ (~isr.owned /\ ~isr.disturbed) => isr.calls = <<>>
        /\ \A k \in 1..Len(isr.calls) : ProperCall(isr.calls[k])

\* C17. Stale interrupts are dropped when no claim or release of the
\* channel runs between the statements of gpdmaServeInterrupt: a run on a
\* channel that is not owned calls nothing, and a run calls neither an
\* empty callback nor a callback with the context of another registration.
StaleDropped ==
    (isr.pc = "idle" /\ ~isr.disturbed) =>
        /\ ~isr.owned => isr.calls = <<>>
        /\ \A k \in 1..Len(isr.calls) : ProperCall(isr.calls[k])

\* A run on a released channel whose CCR still enables the pending source
\* reached the test of func and called nothing.
StaleDroppedWitness ==
    /\ isr.pc = "idle" /\ isr.dmachp \in Channels
    /\ ~isr.owned /\ ~isr.disturbed
    /\ last.op = "isr_func"
    /\ isr.calls = <<>>

\* C18. Unconditional acknowledge: every run of gpdmaServeInterrupt starts
\* by writing to CFCR exactly the status it read, which leaves clear every
\* flag that was pending at the read; the tests of CCR and of func and the
\* call come after that write only.
UnconditionalAck ==
    [][/\ (isr.pc = "idle" /\ isr' # isr) =>
              /\ isr'.pc = "acked"
              /\ isr'.dmachp \in Channels
              /\ isr'.csr = CSR[isr'.dmachp]
              /\ isr'.cfcr = CSR[isr'.dmachp]
              /\ BitAnd(CSR'[isr'.dmachp], CSR[isr'.dmachp]) = 0
              /\ isr'.calls = <<>>
       /\ isr'.pc # "idle" => isr'.cfcr = isr'.csr
       /\ (isr'.pc = "enabled" /\ isr.pc # "enabled") => isr.pc = "acked"
       /\ (isr'.pc = "call" /\ isr.pc # "call") => isr.pc = "enabled"
       /\ isr'.calls # isr.calls => (isr.pc = "call" \/ isr'.calls = <<>>)
      ]_vars

\* Both flags were pending on a channel with no callback and no enabled
\* source, and the run has acknowledged them.
UnconditionalAckWitness ==
    /\ isr.pc = "acked" /\ isr.dmachp \in Channels
    /\ isr.csr = 3 /\ isr.cfcr = 3
    /\ CSR[isr.dmachp] = 0
    /\ CCR[isr.dmachp] = 0
    /\ channels[isr.dmachp].func = NULL
    /\ last.op = "isr_entry"

\* The channel the step is about.
Touched(i) ==
    \/ last'.op = "alloc" /\ last'.ret = i
    \/ last'.op = "free" /\ last'.dmachp = i

\* C19. Frame of allocation state: a claim changes the bit and the slot of
\* the channel it returns only, a release those of the released channel
\* only, gpdmaServeInterrupt none; the bit and the slot of every other
\* channel stay as they were.
AllocationFrame ==
    [][/\ \A i \in 0..STM32_GPDMA_CHANNELS :
              Touched(i) \/ HasBit(allocated_mask', i) = HasBit(allocated_mask, i)
       /\ \A i \in Channels :
              Touched(i) \/ channels'[i] = channels[i]
      ]_vars

\* A claim succeeded while another channel was owned with a callback
\* registered.
AllocationFrameWitness ==
    /\ last.op = "alloc" /\ last.ret \in Channels
    /\ \E j \in Channels \ {last.ret} :
          /\ HasBit(last.pre, j)
          /\ channels[j].func # NULL

====
